---- MODULE Spec2Model ----
(***************************************************************************)
(* ply.git.cmd: a command layer over the git executable (add, am,          *)
(* checkout, commit, format_patch, init, log, reset) and the Repo facade   *)
(* that runs each command inside a temporary os.chdir to the repo's path.  *)
(*                                                                         *)
(* Python values are modelled as follows.                                  *)
(*   - a str used as an argv token is a TLA+ string;                       *)
(*   - captured process output is a sequence of one-character strings, so  *)
(*     that str.split and str.strip are computed, not assumed;             *)
(*   - an optional value is a sequence of length 0 (None) or 1 (the value).*)
(***************************************************************************)
EXTENDS Integers, Sequences, FiniteSets, TLC

VARIABLES
    last,     \* observation of the call that has just finished (NoCall: none)
    cwd,      \* the process working directory (os.getcwd())
    stack,    \* per thread: the live Repo.chdir() frames, innermost last
    order,    \* thread ids of the live frames in the order they were started
    crossed,  \* some frame was restored while a later-started frame was live
    overlapped, \* some frame was started while another thread had a live frame
    cwd0,     \* the working directory before the first call started
    req       \* the direct call about to be made and what git will do (or NoCall)

vars == <<last, cwd, stack, order, crossed, overlapped, cwd0, req>>

(***************************************************************************)
(* Bounds of the model.                                                    *)
(***************************************************************************)
MaxText == 3     \* longest captured output, in characters
MaxDepth == 2    \* deepest nesting of Repo.chdir() frames in one thread

None == <<>>
Some(x) == <<x>>
Opt(S) == {None} \cup {Some(x) : x \in S}

\* Python truthiness of an optional str: None and '' are false.
Truthy(o) == o # None /\ o[1] # ""

(***************************************************************************)
(* Captured output.                                                        *)
(***************************************************************************)
NL == "\n"
Whitespace == {" ", "\n", "\t", "\r"}
Chars == {"a", " ", NL}

RECURSIVE SeqsUpTo(_, _)
SeqsUpTo(S, n) ==
    IF n = 0 THEN {<<>>}
    ELSE LET shorter == SeqsUpTo(S, n - 1)
         IN  shorter \cup {Append(s, c) : s \in {x \in shorter : Len(x) = n - 1}, c \in S}

Texts == SeqsUpTo(Chars, MaxText)
ErrTexts == {<<>>, <<"f", "a", "t", "a", "l">>}
ExitCodes == {0, 1, 128}

\* What the external git process does: its exit code and what it writes to
\* its standard output and standard error.
Procs == [code : ExitCodes, out : Texts, err : ErrTexts]

\* str.split(sep): the pieces between the separators, empty pieces kept.
RECURSIVE Split(_, _)
Split(s, sep) ==
    IF \A i \in 1..Len(s) : s[i] # sep THEN <<s>>
    ELSE LET i == CHOOSE k \in 1..Len(s) :
                      s[k] = sep /\ \A j \in 1..(k - 1) : s[j] # sep
         IN  <<SubSeq(s, 1, i - 1)>> \o Split(SubSeq(s, i + 1, Len(s)), sep)

\* str.strip(): leading and trailing whitespace removed.
RECURSIVE Strip(_)
Strip(s) ==
    IF s = <<>> THEN s
    ELSE IF s[1] \in Whitespace THEN Strip(Tail(s))
    ELSE IF s[Len(s)] \in Whitespace THEN Strip(SubSeq(s, 1, Len(s) - 1))
    ELSE s

\* [line.strip() for line in stdout.split('\n') if line]
RECURSIVE StripNonEmpty(_)
StripNonEmpty(lines) ==
    IF lines = <<>> THEN <<>>
    ELSE IF Head(lines) # <<>>
         THEN <<Strip(Head(lines))>> \o StripNonEmpty(Tail(lines))
         ELSE StripNonEmpty(Tail(lines))

(***************************************************************************)
(* Outcomes of one command-layer call.  argv is the vector handed to the   *)
(* external process (<<>> when none was spawned).                          *)
(***************************************************************************)
Returned(args, v) ==
    [argv |-> args, spawned |-> 1, kind |-> "return", exc |-> "",
     payload |-> <<>>, value |-> v]

Raised(args, n, e, p) ==
    [argv |-> args, spawned |-> n, kind |-> "raise", exc |-> e,
     payload |-> p, value |-> None]

\* subprocess.check_call(args): returns on exit code 0, raises
\* CalledProcessError(returncode, cmd) otherwise.  Nothing is captured.
check_call(args, proc) ==
    IF proc.code = 0 THEN Returned(args, None)
    ELSE Raised(args, 1, "CalledProcessError", <<proc.code>>)

\* subprocess.Popen(args, stdout=PIPE).communicate(): only the streams that
\* were given a pipe are captured; the other one comes back as None.
communicate(proc, stdoutPiped, stderrPiped) ==
    <<IF stdoutPiped THEN Some(proc.out) ELSE None,
      IF stderrPiped THEN Some(proc.err) ELSE None>>

(***************************************************************************)
(* The command layer.  Each operator takes the call's arguments and what   *)
(* the external process does (proc) and yields the call's outcome.         *)
(***************************************************************************)
add(filename, proc) == check_call(<<"git", "add", filename>>, proc)

\* am without the try/except around check_call.
amNoCatch(patch_paths, three_way_merge, resolved, quiet, proc) ==
    LET args0 == <<"git", "am">> \o patch_paths
        args1 == IF three_way_merge THEN Append(args0, "--3way") ELSE args0
        args2 == IF resolved THEN Append(args1, "--resolved") ELSE args1
        args3 == IF quiet THEN Append(args2, "-q") ELSE args2
    IN  check_call(args3, proc)

am(patch_paths, three_way_merge, resolved, quiet, proc) ==
    LET args0 == <<"git", "am">> \o patch_paths
        args1 == IF three_way_merge THEN Append(args0, "--3way") ELSE args0
        args2 == IF resolved THEN Append(args1, "--resolved") ELSE args1
        args3 == IF quiet THEN Append(args2, "-q") ELSE args2
        r == check_call(args3, proc)
    IN  IF r.kind = "raise" /\ r.exc = "CalledProcessError"
        THEN Raised(args3, 1, "PatchDidNotApplyCleanly", <<>>)
        ELSE r

\* checkout without the test for create and create_and_reset.
checkoutNoConflictCheck(branch_name, create, create_and_reset, proc) ==
    LET args0 == <<"git", "checkout">>
        args1 == IF create THEN Append(args0, "-b") ELSE args0
        args2 == IF create_and_reset THEN Append(args1, "-B") ELSE args1
        args3 == Append(args2, branch_name)
    IN  check_call(args3, proc)

checkout(branch_name, create, create_and_reset, proc) ==
    LET args0 == <<"git", "checkout">>
        args1 == IF create THEN Append(args0, "-b") ELSE args0
        args2 == IF create_and_reset THEN Append(args1, "-B") ELSE args1
        args3 == Append(args2, branch_name)
    IN  IF create /\ create_and_reset
        THEN Raised(<<>>, 0, "MutuallyIncompatibleOptions",
                    <<"create and create_and_reset">>)
        ELSE check_call(args3, proc)

\* commit with the message glued to its flag: args.append('-m %s' % msg).
commitJoinedMessage(msg, all, amend, use_commit_object, quiet, proc) ==
    LET args0 == <<"git", "commit">>
        args1 == IF msg # None THEN Append(args0, "-m " \o msg[1]) ELSE args0
        args2 == IF all THEN Append(args1, "-a") ELSE args1
        args3 == IF amend THEN Append(args2, "--amend") ELSE args2
        args4 == IF Truthy(use_commit_object)
                 THEN args3 \o <<"-C", use_commit_object[1]>> ELSE args3
        args5 == IF quiet THEN Append(args4, "-q") ELSE args4
    IN  check_call(args5, proc)

commit(msg, all, amend, use_commit_object, quiet, proc) ==
    LET args0 == <<"git", "commit">>
        args1 == IF msg # None THEN args0 \o <<"-m", msg[1]>> ELSE args0
        args2 == IF all THEN Append(args1, "-a") ELSE args1
        args3 == IF amend THEN Append(args2, "--amend") ELSE args2
        args4 == IF Truthy(use_commit_object)
                 THEN args3 \o <<"-C", use_commit_object[1]>> ELSE args3
        args5 == IF quiet THEN Append(args4, "-q") ELSE args4
    IN  check_call(args5, proc)

format_patch(since, proc) ==
    LET args == <<"git", "format-patch", since>>
        streams == communicate(proc, TRUE, FALSE)
        stdout == streams[1]
        stderr == streams[2]
    IN  IF proc.code # 0
        THEN Raised(args, 1, "GitException", <<proc.code, stdout, stderr>>)
        ELSE Returned(args, Some(StripNonEmpty(Split(stdout[1], NL))))

\* init with the directory appended before the -q test, as reset does.
initDirectoryFirst(directory, quiet, proc) ==
    LET args0 == <<"git", "init", directory>>
        args1 == IF quiet THEN Append(args0, "-q") ELSE args0
    IN  check_call(args1, proc)

init(directory, quiet, proc) ==
    LET args0 == <<"git", "init">>
        args1 == IF quiet THEN Append(args0, "-q") ELSE args0
        args2 == Append(args1, directory)
    IN  check_call(args2, proc)

\* log with the skip test placed before the count test.
logSkipBeforeCount(cmd_arg, count, pretty, skip, proc) ==
    LET args0 == <<"git", "log">>
        args1 == IF Truthy(pretty)
                 THEN Append(args0, "--pretty=" \o pretty[1]) ELSE args0
        args2 == IF skip # None
                 THEN Append(args1, "--skip=" \o ToString(skip[1])) ELSE args1
        args3 == IF count # None
                 THEN Append(args2, "-" \o ToString(count[1])) ELSE args2
        args4 == IF Truthy(cmd_arg) THEN Append(args3, cmd_arg[1]) ELSE args3
        streams == communicate(proc, TRUE, FALSE)
        stdout == streams[1]
        stderr == streams[2]
    IN  IF proc.code # 0
        THEN Raised(args4, 1, "GitException", <<proc.code, stdout, stderr>>)
        ELSE Returned(args4, stdout)

log(cmd_arg, count, pretty, skip, proc) ==
    LET args0 == <<"git", "log">>
        args1 == IF Truthy(pretty)
                 THEN Append(args0, "--pretty=" \o pretty[1]) ELSE args0
        args2 == IF count # None
                 THEN Append(args1, "-" \o ToString(count[1])) ELSE args1
        args3 == IF skip # None
                 THEN Append(args2, "--skip=" \o ToString(skip[1])) ELSE args2
        args4 == IF Truthy(cmd_arg) THEN Append(args3, cmd_arg[1]) ELSE args3
        streams == communicate(proc, TRUE, FALSE)
        stdout == streams[1]
        stderr == streams[2]
    IN  IF proc.code # 0
        THEN Raised(args4, 1, "GitException", <<proc.code, stdout, stderr>>)
        ELSE Returned(args4, stdout)

reset(commit_, hard, quiet, proc) ==
    LET args0 == <<"git", "reset", commit_>>
        args1 == IF hard THEN Append(args0, "--hard") ELSE args0
        args2 == IF quiet THEN Append(args1, "-q") ELSE args1
    IN  check_call(args2, proc)

(***************************************************************************)
(* The arguments the model enumerates.  A call is a record naming the      *)
(* operation (op) and its arguments.                                       *)
(***************************************************************************)
Filenames == {"f.txt"}
PatchLists == {<<>>, <<"p1">>, <<"p1", "p2">>}
Branches == {"dev"}
Messages == Opt({"", "fix"})
CommitRefs == Opt({"", "abc123"})
Revisions == {"HEAD~1"}
Directories == {"d"}
LogArgs == Opt({"", "src"})
Counts == Opt({0, 3})
Formats == Opt({"", "oneline"})
Skips == Opt({0, 2})

AddCalls == [op : {"add"}, filename : Filenames]
AmCalls == [op : {"am"}, patch_paths : PatchLists, three_way_merge : BOOLEAN,
            resolved : BOOLEAN, quiet : BOOLEAN]
CheckoutCalls == [op : {"checkout"}, branch_name : Branches, create : BOOLEAN,
                  create_and_reset : BOOLEAN]
CommitCalls == [op : {"commit"}, msg : Messages, all : BOOLEAN, amend : BOOLEAN,
                use_commit_object : CommitRefs, quiet : BOOLEAN]
FormatPatchCalls == [op : {"format_patch"}, since : Revisions]
InitCalls == [op : {"init"}, directory : Directories, quiet : BOOLEAN]
LogCalls == [op : {"log"}, cmd_arg : LogArgs, count : Counts, pretty : Formats,
             skip : Skips]
ResetCalls == [op : {"reset"}, commit : Revisions, hard : BOOLEAN, quiet : BOOLEAN]

\* globals()[fname](*args, **kwargs): the operation a call names, applied.
Invoke(c, proc) ==
    CASE c.op = "add" -> add(c.filename, proc)
      [] c.op = "am" ->
            am(c.patch_paths, c.three_way_merge, c.resolved, c.quiet, proc)
      [] c.op = "checkout" ->
            checkout(c.branch_name, c.create, c.create_and_reset, proc)
      [] c.op = "commit" ->
            commit(c.msg, c.all, c.amend, c.use_commit_object, c.quiet, proc)
      [] c.op = "format_patch" -> format_patch(c.since, proc)
      [] c.op = "init" -> init(c.directory, c.quiet, proc)
      [] c.op = "log" -> log(c.cmd_arg, c.count, c.pretty, c.skip, proc)
      [] c.op = "reset" -> reset(c.commit, c.hard, c.quiet, proc)

NoCall == [op |-> "none"]

\* The observation kept of a finished call: the call, what the process did,
\* the outcome, the directory the operation ran in (None: it did not run),
\* the working directory before (pre) and after (post) the call, the calling
\* thread and the Repo the call went through ("none": a direct call).
Finished(c, proc, res, ranIn, pre, post, thread, repo) ==
    [op |-> c.op, call |-> c, proc |-> proc, res |-> res, ranIn |-> ranIn,
     pre |-> pre, post |-> post, thread |-> thread, repo |-> repo]

(***************************************************************************)
(* Direct calls of the command layer: the operation runs in the current    *)
(* working directory, which it leaves alone.                               *)
(***************************************************************************)
Direct(c, proc) ==
    /\ last = NoCall
    /\ last' = Finished(c, proc, Invoke(c, proc), Some(cwd), cwd, cwd,
                        "t1", "none")
    /\ UNCHANGED <<cwd, stack, order, crossed, overlapped, cwd0, req>>

Calls ==
    AddCalls \cup AmCalls \cup CheckoutCalls \cup CommitCalls
        \cup FormatPatchCalls \cup InitCalls \cup LogCalls \cup ResetCalls

Add ==
    /\ req # NoCall
    /\ req.call.op = "add"
    /\ Direct(req.call, req.proc)

Am ==
    /\ req # NoCall
    /\ req.call.op = "am"
    /\ Direct(req.call, req.proc)

Checkout ==
    /\ req # NoCall
    /\ req.call.op = "checkout"
    /\ Direct(req.call, req.proc)

Commit ==
    /\ req # NoCall
    /\ req.call.op = "commit"
    /\ Direct(req.call, req.proc)

FormatPatch ==
    /\ req # NoCall
    /\ req.call.op = "format_patch"
    /\ Direct(req.call, req.proc)

InitRepo ==
    /\ req # NoCall
    /\ req.call.op = "init"
    /\ Direct(req.call, req.proc)

Log ==
    /\ req # NoCall
    /\ req.call.op = "log"
    /\ Direct(req.call, req.proc)

Reset ==
    /\ req # NoCall
    /\ req.call.op = "reset"
    /\ Direct(req.call, req.proc)


(***************************************************************************)
(* The file system and the Repo objects.  A Repo is built before the calls *)
(* modelled here; its path is absolute and never changes.  "/gone" is a    *)
(* path with no directory behind it: os.chdir to it raises OSError.        *)
(***************************************************************************)
Dirs == {"/home", "/r1", "/r2", "/gone"}
ExistingDirs == Dirs \ {"/gone"}
Threads == {"t1", "t2"}
Repos == {"ra", "rb", "rg"}

\* Repo.__init__: self.path = os.path.abspath(path)
RepoPath(r) ==
    CASE r = "ra" -> "/r1"
      [] r = "rb" -> "/r2"
      [] r = "rg" -> "/gone"

\* The calls made through a Repo, and what git does in them: one call of
\* each operation, and the checkout that names both branch-creation modes.
RepoCalls ==
    {c \in Calls :
        CASE c.op = "am" ->
                c.patch_paths = <<"p1">> /\ ~c.three_way_merge /\ ~c.resolved
                    /\ ~c.quiet
          [] c.op = "checkout" -> c.create = c.create_and_reset
          [] c.op = "commit" ->
                c.msg = Some("fix") /\ ~c.all /\ ~c.amend
                    /\ c.use_commit_object = None /\ ~c.quiet
          [] c.op = "init" -> ~c.quiet
          [] c.op = "log" ->
                c.cmd_arg = None /\ c.count = None /\ c.pretty = None
                    /\ c.skip = None
          [] c.op = "reset" -> ~c.hard /\ ~c.quiet
          [] OTHER -> TRUE}

RepoProcs == {p \in Procs : Len(p.out) <= 1 /\ p.err = <<>> /\ p.code \in {0, 1}}

\* The calls the two threads make, and what git does in them.
ThreadCalls == {c \in RepoCalls : c.op \in {"add", "checkout"}}
ThreadProcs == {p \in RepoProcs : p.out = <<>>}

\* chdir() taking orig_path = os.getcwd() after os.chdir(self.path).
FrameOrigAfterSwitch(r, kind, c) ==
    [repo |-> r, kind |-> kind, call |-> c, orig |-> RepoPath(r), pre |-> cwd,
     pc |-> "chdir", done |-> NoCall]

\* A live Repo.chdir() context: the Repo, the saved orig_path, and where
\* control is (chdir: about to switch; body: inside the with block;
\* finally: about to restore).  kind tells a wrapper's context, whose body
\* is the one call fn(*args, **kwargs), from a with block of the caller.
\* pre is the working directory when the context was entered.
Frame(r, kind, c) ==
    [repo |-> r, kind |-> kind, call |-> c, orig |-> cwd, pre |-> cwd,
     pc |-> "chdir", done |-> NoCall]

Top(t) == stack[t][Len(stack[t])]
Pop(t) == [stack EXCEPT ![t] = SubSeq(@, 1, Len(@) - 1)]
SetTop(t, f) == [stack EXCEPT ![t][Len(stack[t])] = f]

\* User code of thread t is running: at top level or in a with block's body.
InUserCode(t) ==
    IF stack[t] = <<>> THEN TRUE
    ELSE Top(t).kind = "with" /\ Top(t).pc = "body"

RECURSIVE RemoveLast(_, _)
RemoveLast(seq, t) ==
    IF seq = <<>> THEN <<>>
    ELSE IF seq[Len(seq)] = t THEN SubSeq(seq, 1, Len(seq) - 1)
    ELSE Append(RemoveLast(SubSeq(seq, 1, Len(seq) - 1), t), seq[Len(seq)])

\* wrapper(*args, **kwargs), first step: `with self.chdir():` is entered and
\* orig_path = os.getcwd() is taken.
WrapperCall(t, r, c) ==
    /\ InUserCode(t)
    /\ Len(stack[t]) < MaxDepth
    /\ stack' = [stack EXCEPT ![t] = Append(@, Frame(r, "call", c))]
    /\ order' = Append(order, t)
    /\ overlapped' = (overlapped \/ \E u \in DOMAIN stack \ {t} : stack[u] # <<>>)
    /\ last' = NoCall
    /\ UNCHANGED <<cwd, crossed, cwd0, req>>

\* The caller's own `with repo.chdir():`, first step.
WithEnter(t, r) ==
    /\ InUserCode(t)
    /\ Len(stack[t]) < MaxDepth
    /\ stack' = [stack EXCEPT ![t] = Append(@, Frame(r, "with", NoCall))]
    /\ order' = Append(order, t)
    /\ overlapped' = (overlapped \/ \E u \in DOMAIN stack \ {t} : stack[u] # <<>>)
    /\ last' = NoCall
    /\ UNCHANGED <<cwd, crossed, cwd0, req>>

\* chdir() switching to orig_path instead of self.path: the working
\* directory stays where it is.
ChdirSwitchStays(t) ==
    /\ stack[t] # <<>>
    /\ stack[t][Len(stack[t])].pc = "chdir"
    /\ stack' = [stack EXCEPT ![t][Len(stack[t])].pc = "body"]
    /\ last' = NoCall
    /\ UNCHANGED <<cwd, order, crossed, overlapped, cwd0, req>>

\* os.chdir(self.path).  It is outside the try: when it raises, nothing is
\* restored and the error leaves the context.
ChdirSwitch(t) ==
    /\ stack[t] # <<>>
    /\ Top(t).pc = "chdir"
    /\ LET f == Top(t)
       IN  IF RepoPath(f.repo) \in ExistingDirs
           THEN /\ cwd' = RepoPath(f.repo)
                /\ stack' = SetTop(t, [f EXCEPT !.pc = "body"])
                /\ last' = NoCall
                /\ UNCHANGED order
           ELSE /\ cwd' = cwd
                /\ stack' = Pop(t)
                /\ order' = RemoveLast(order, t)
                /\ last' = IF f.kind = "call"
                           THEN Finished(f.call, NoCall,
                                         Raised(<<>>, 0, "OSError", <<>>),
                                         None, f.pre, cwd, t, f.repo)
                           ELSE NoCall
    /\ UNCHANGED <<crossed, overlapped, cwd0, req>>

\* return fn(*args, **kwargs): the operation runs in whatever the working
\* directory is at that moment.
WrapperExec(t, proc) ==
    /\ stack[t] # <<>>
    /\ Top(t).kind = "call"
    /\ Top(t).pc = "body"
    /\ LET f == Top(t)
           d == Finished(f.call, proc, Invoke(f.call, proc), Some(cwd),
                         f.pre, cwd, t, f.repo)
       IN  stack' = SetTop(t, [f EXCEPT !.pc = "finally", !.done = d])
    /\ last' = NoCall
    /\ UNCHANGED <<cwd, order, crossed, overlapped, cwd0, req>>

\* The body of the caller's with block ends, normally or by an exception.
WithBodyEnd(t) ==
    /\ stack[t] # <<>>
    /\ Top(t).kind = "with"
    /\ Top(t).pc = "body"
    /\ stack' = SetTop(t, [Top(t) EXCEPT !.pc = "finally"])
    /\ last' = NoCall
    /\ UNCHANGED <<cwd, order, crossed, overlapped, cwd0, req>>

\* chdir() without try/finally: os.chdir(orig_path) is skipped when the body
\* raises.
ChdirRestoreNoFinally(t) ==
    /\ stack[t] # <<>>
    /\ Top(t).pc = "finally"
    /\ LET f == Top(t)
           raised == f.kind = "call" /\ f.done.res.kind = "raise"
           to == IF raised THEN cwd ELSE f.orig
       IN  /\ cwd' = to
           /\ last' = IF f.kind = "call"
                      THEN [f.done EXCEPT !.post = to]
                      ELSE NoCall
    /\ stack' = Pop(t)
    /\ order' = RemoveLast(order, t)
    /\ crossed' = (crossed \/ order[Len(order)] # t)
    /\ UNCHANGED <<overlapped, cwd0, req>>

\* finally: os.chdir(orig_path); then the wrapper returns or re-raises.
ChdirRestore(t) ==
    /\ stack[t] # <<>>
    /\ Top(t).pc = "finally"
    /\ LET f == Top(t)
       IN  /\ cwd' = f.orig
           /\ last' = IF f.kind = "call"
                      THEN [f.done EXCEPT !.post = f.orig]
                      ELSE NoCall
    /\ stack' = Pop(t)
    /\ order' = RemoveLast(order, t)
    /\ crossed' = (crossed \/ order[Len(order)] # t)
    /\ UNCHANGED <<overlapped, cwd0, req>>

InitFacade(threads) ==
    /\ last = NoCall
    /\ req = NoCall
    /\ cwd \in {"/home", "/r1"}
    /\ cwd0 = cwd
    /\ stack = [t \in threads |-> <<>>]
    /\ order = <<>>
    /\ crossed = FALSE
    /\ overlapped = FALSE

\* A Repo used from one thread, in calls that follow or nest in each other.
NextRepo ==
    \/ \E r \in Repos, c \in RepoCalls : WrapperCall("t1", r, c)
    \/ \E r \in Repos : WithEnter("t1", r)
    \/ ChdirSwitch("t1")
    \/ \E proc \in RepoProcs : WrapperExec("t1", proc)
    \/ WithBodyEnd("t1")
    \/ ChdirRestore("t1")

SpecRepo == InitFacade({"t1"}) /\ [][NextRepo]_vars

\* Two threads, each calling through Repos, with nothing serializing them:
\* a thread may be preempted between any two of the wrapper's steps.
NextThreads ==
    \/ \E t \in Threads, r \in Repos, c \in ThreadCalls : WrapperCall(t, r, c)
    \/ \E t \in Threads : ChdirSwitch(t)
    \/ \E t \in Threads, proc \in ThreadProcs : WrapperExec(t, proc)
    \/ \E t \in Threads : ChdirRestore(t)

SpecThreads == InitFacade(Threads) /\ [][NextThreads]_vars

(***************************************************************************)
(* The command layer called directly, once, with any arguments.            *)
(***************************************************************************)
Init ==
    /\ last = NoCall
    /\ req \in [call : Calls, proc : Procs]
    /\ cwd \in {"/home", "/r1"}
    /\ cwd0 = cwd
    /\ stack = [t \in {"t1"} |-> <<>>]
    /\ order = <<>>
    /\ crossed = FALSE
    /\ overlapped = FALSE

Next ==
    \/ Add
    \/ Am
    \/ Checkout
    \/ Commit
    \/ FormatPatch
    \/ InitRepo
    \/ Log
    \/ Reset

Spec == Init /\ [][Next]_vars

(***************************************************************************)
(* Vocabulary of the properties.                                           *)
(***************************************************************************)
Range(seq) == {seq[i] : i \in 1..Len(seq)}

\* A call has finished and its operation handed a vector to a git process.
Ran == last # NoCall /\ last.res.spawned = 1

\* The git subcommand an operation runs.
Subcommand(op) == IF op = "format_patch" THEN "format-patch" ELSE op

\* The positional arguments of a call that are passed on to git.
Positionals(c) ==
    CASE c.op = "add" -> {c.filename}
      [] c.op = "am" -> Range(c.patch_paths)
      [] c.op = "checkout" -> {c.branch_name}
      [] c.op = "commit" -> {}
      [] c.op = "format_patch" -> {c.since}
      [] c.op = "init" -> {c.directory}
      [] c.op = "log" -> IF Truthy(c.cmd_arg) THEN {c.cmd_arg[1]} ELSE {}
      [] c.op = "reset" -> {c.commit}

\* Every flag token of the eight operations, over the enumerated values.
FlagTokens ==
    {"--3way", "--resolved", "-q", "-b", "-B", "-m", "-a", "--amend", "-C",
     "--hard", "--pretty"}
        \cup {"--pretty=" \o f[1] : f \in Formats \ {None}}
        \cup {"-" \o ToString(n[1]) : n \in Counts \ {None}}
        \cup {"--skip=" \o ToString(k[1]) : k \in Skips \ {None}}

\* flag immediately followed by value, as two entries of the vector.
FlagThenValue(argv, flag, value) ==
    \E i \in 1..(Len(argv) - 1) : argv[i] = flag /\ argv[i + 1] = value

OnlyIf(b, seq) == IF b THEN seq ELSE <<>>

\* The documented per-operation option order, with the options of call c.
DocumentedFlags(c) ==
    CASE c.op = "am" ->
            OnlyIf(c.three_way_merge, <<"--3way">>)
                \o OnlyIf(c.resolved, <<"--resolved">>)
                \o OnlyIf(c.quiet, <<"-q">>)
      [] c.op = "commit" ->
            OnlyIf(c.msg # None, <<"-m">> \o c.msg)
                \o OnlyIf(c.all, <<"-a">>)
                \o OnlyIf(c.amend, <<"--amend">>)
                \o OnlyIf(Truthy(c.use_commit_object),
                          <<"-C">> \o c.use_commit_object)
                \o OnlyIf(c.quiet, <<"-q">>)
      [] c.op = "log" ->
            OnlyIf(Truthy(c.pretty), <<"--pretty=" \o Head(c.pretty \o <<"">>)>>)
                \o OnlyIf(c.count # None,
                          <<"-" \o ToString(Head(c.count \o <<0>>))>>)
                \o OnlyIf(c.skip # None,
                          <<"--skip=" \o ToString(Head(c.skip \o <<0>>))>>)
      [] c.op = "reset" ->
            OnlyIf(c.hard, <<"--hard">>) \o OnlyIf(c.quiet, <<"-q">>)
      [] c.op = "init" -> OnlyIf(c.quiet, <<"-q">>)
      [] c.op = "checkout" ->
            OnlyIf(c.create, <<"-b">>) \o OnlyIf(c.create_and_reset, <<"-B">>)
      [] OTHER -> <<>>

\* The vector's entries after program and subcommand, positionals left out.
NonPositional(argv, c) ==
    LET notPositional(tok) == tok \notin Positionals(c)
    IN  SelectSeq(SubSeq(argv, 3, Len(argv)), notPositional)

NoPositionalBeforeFlag(argv, c) ==
    \A i, j \in 3..Len(argv) :
        i < j => ~(argv[i] \in Positionals(c) /\ argv[j] \in FlagTokens)

NoFlagBeforePositional(argv, c) ==
    \A i, j \in 3..Len(argv) :
        i < j => ~(argv[i] \in FlagTokens /\ argv[j] \in Positionals(c))

AllReturned == \A t \in DOMAIN stack : stack[t] = <<>>

\* The operation of a finished wrapped call ran in a directory that is not
\* its Repo's path.
RanElsewhere(d) ==
    /\ d # NoCall
    /\ d.repo # "none"
    /\ d.ranIn # None
    /\ d.ranIn # Some(RepoPath(d.repo))

(***************************************************************************)
(* C1: used from one thread, after any wrapped call finishes (by return,   *)
(* by an exception of the operation, or because the switch into the Repo's *)
(* path failed), in sequence or nested, the working directory is the one   *)
(* from immediately before that call.                                      *)
(***************************************************************************)
C1_CwdRestored ==
    (last # NoCall /\ last.repo # "none") => (last.post = last.pre /\ cwd = last.pre)

\* A call nested in a with block of another Repo raised after its operation
\* ran in a directory other than the caller's.
C1_Witness ==
    /\ last # NoCall
    /\ last.repo # "none"
    /\ last.res.kind = "raise"
    /\ last.ranIn # None
    /\ last.ranIn # Some(last.pre)
    /\ Len(stack["t1"]) = 1

\* The switch into the Repo's path failed.
C1_WitnessSwitchFailed ==
    last # NoCall /\ last.res.exc = "OSError" /\ last.ranIn = None

(***************************************************************************)
(* C2: checkout with create and create_and_reset both true raises          *)
(* MutuallyIncompatibleOptions and spawns no process; with any other       *)
(* combination exactly one process is spawned and that error is not raised.*)
(***************************************************************************)
C2_CheckoutConflict ==
    (last # NoCall /\ last.op = "checkout") =>
        IF last.call.create /\ last.call.create_and_reset
        THEN /\ last.res.kind = "raise"
             /\ last.res.exc = "MutuallyIncompatibleOptions"
             /\ last.res.spawned = 0
             /\ last.res.argv = <<>>
        ELSE /\ last.res.spawned = 1
             /\ last.res.exc # "MutuallyIncompatibleOptions"

C2_Witness ==
    /\ last # NoCall
    /\ last.op = "checkout"
    /\ last.call.create
    /\ last.call.create_and_reset
    /\ last.res.spawned = 0

(***************************************************************************)
(* C3: am raises PatchDidNotApplyCleanly, carrying no exit code or output, *)
(* for every non-zero exit code, patch paths and options, and never        *)
(* GitException or CalledProcessError; on exit code 0 it returns.          *)
(***************************************************************************)
C3_AmFailure ==
    (last # NoCall /\ last.op = "am") =>
        IF last.proc.code # 0
        THEN /\ last.res.kind = "raise"
             /\ last.res.exc = "PatchDidNotApplyCleanly"
             /\ last.res.payload = <<>>
        ELSE last.res.kind = "return"

C3_Witness ==
    /\ last # NoCall
    /\ last.op = "am"
    /\ last.proc.code = 128
    /\ last.call.patch_paths # <<>>
    /\ last.call.three_way_merge
    /\ last.res.exc = "PatchDidNotApplyCleanly"

(***************************************************************************)
(* C4: on exit code 0 format_patch returns the lines of the captured       *)
(* output in order and never a blank entry, whatever the output, empty     *)
(* output and whitespace-only lines included.                              *)
(***************************************************************************)
C4_NoBlankEntries ==
    (last # NoCall /\ last.op = "format_patch" /\ last.proc.code = 0) =>
        /\ last.res.kind = "return"
        /\ \A i \in 1..Len(last.res.value[1]) : last.res.value[1][i] # <<>>

C6_ValueOptionsTwoTokens ==
    /\ (Ran /\ last.op = "commit") =>
          /\ last.call.msg # None =>
                FlagThenValue(last.res.argv, "-m", last.call.msg[1])
          /\ Truthy(last.call.use_commit_object) =>
                FlagThenValue(last.res.argv, "-C", last.call.use_commit_object[1])
    /\ (Ran /\ last.op = "log") =>
          /\ Truthy(last.call.pretty) =>
                FlagThenValue(last.res.argv, "--pretty", last.call.pretty[1])
          /\ last.call.count # None =>
                ("-" \o ToString(last.call.count[1])) \in Range(last.res.argv)
          /\ last.call.skip # None =>
                ("--skip=" \o ToString(last.call.skip[1])) \in Range(last.res.argv)

(***************************************************************************)
(* C6 as amended: commit's msg (when not None) and use_commit_object (when *)
(* not empty) are each rendered as a flag token followed by its value      *)
(* token; log's pretty (when not empty), count and skip (when not None)    *)
(* are each rendered as one combined token: --pretty=F, -N, --skip=K.      *)
(***************************************************************************)
C6_Amended ==
    /\ (Ran /\ last.op = "commit") =>
          /\ last.call.msg # None =>
                FlagThenValue(last.res.argv, "-m", last.call.msg[1])
          /\ Truthy(last.call.use_commit_object) =>
                FlagThenValue(last.res.argv, "-C", last.call.use_commit_object[1])
    /\ (Ran /\ last.op = "log") =>
          /\ Truthy(last.call.pretty) =>
                /\ ("--pretty=" \o last.call.pretty[1]) \in Range(last.res.argv)
                /\ "--pretty" \notin Range(last.res.argv)
          /\ last.call.count # None =>
                ("-" \o ToString(last.call.count[1])) \in Range(last.res.argv)
          /\ last.call.skip # None =>
                ("--skip=" \o ToString(last.call.skip[1])) \in Range(last.res.argv)

C6_Witness ==
    /\ Ran
    /\ last.op = "log"
    /\ last.call.pretty = Some("oneline")
    /\ "--pretty=oneline" \in Range(last.res.argv)

C6_WitnessCommit ==
    /\ Ran
    /\ last.op = "commit"
    /\ last.call.msg = Some("fix")
    /\ last.call.use_commit_object = Some("abc123")

(***************************************************************************)
(* C7: the flag tokens of every vector are those of the documented         *)
(* per-operation order, a boolean option's flag being there exactly when   *)
(* the option is true, with log's cmd_arg last; log returns the captured   *)
(* output unmodified; log(count=3, pretty="oneline", skip=2) runs          *)
(* git log --pretty=oneline -3 --skip=2.                                   *)
(***************************************************************************)
C7_FlagOrder ==
    Ran =>
        /\ NonPositional(last.res.argv, last.call) = DocumentedFlags(last.call)
        /\ (last.op = "log" /\ Truthy(last.call.cmd_arg)) =>
                last.res.argv[Len(last.res.argv)] = last.call.cmd_arg[1]
        /\ (last.op = "log" /\ last.proc.code = 0) =>
                /\ last.res.kind = "return"
                /\ last.res.value = Some(last.proc.out)
        /\ (/\ last.op = "log"
            /\ last.call.count = Some(3)
            /\ last.call.pretty = Some("oneline")
            /\ last.call.skip = Some(2)
            /\ ~Truthy(last.call.cmd_arg)) =>
                last.res.argv = <<"git", "log", "--pretty=oneline", "-3", "--skip=2">>

C7_Witness ==
    /\ Ran
    /\ last.op = "log"
    /\ last.call.count = Some(3)
    /\ last.call.pretty = Some("oneline")
    /\ last.call.skip = Some(2)
    /\ last.call.cmd_arg = None
    /\ last.proc.code = 0
    /\ last.res.value = Some(<<"a", NL, "a">>)

(***************************************************************************)
(* C8: when the process of format_patch or log exits non-zero, the call    *)
(* raises GitException with the payload (exit code, captured standard      *)
(* output, what the process wrote to standard error) and returns nothing.  *)
(***************************************************************************)
C8_FailureCarriesStreams ==
    (last # NoCall /\ last.op \in {"format_patch", "log"} /\ last.proc.code # 0) =>
        /\ last.res.kind = "raise"
        /\ last.res.exc = "GitException"
        /\ last.res.value = None
        /\ last.res.payload[1] = last.proc.code
        /\ last.res.payload[2] = Some(last.proc.out)
        /\ last.res.payload[3] = Some(last.proc.err)

(***************************************************************************)
(* C9: with two threads calling through Repos and nothing serializing      *)
(* them, an operation can run while the working directory is not its own   *)
(* Repo's path (C9_Witness is reached); it happens only when calls of the  *)
(* two threads have overlapped in time.                                    *)
(***************************************************************************)
C9_ElsewhereOnlyWhenOverlapping ==
    \A t \in DOMAIN stack :
        (stack[t] # <<>> /\ RanElsewhere(Top(t).done)) => overlapped

\* A git process was run for a call through a Repo bound to /r1 while the
\* working directory was /r2, the path of the other thread's Repo.
C9_Witness ==
    \E t \in DOMAIN stack :
        /\ stack[t] # <<>>
        /\ RanElsewhere(Top(t).done)
        /\ Top(t).done.res.spawned = 1
        /\ RepoPath(Top(t).repo) = "/r1"
        /\ Top(t).done.ranIn = Some("/r2")

(***************************************************************************)
(* C10 as claimed: for every interleaving of the wrapped calls of two      *)
(* threads, once all calls have returned or raised, the working directory  *)
(* is the one from before the first call.                                  *)
(***************************************************************************)
C10_NeverLeftChanged == AllReturned => cwd = cwd0

(***************************************************************************)
(* C10 as amended: for every interleaving of the wrapped calls of two      *)
(* threads in which the switches are restored in the reverse order of      *)
(* their start (calls that follow or nest in each other), once all calls   *)
(* have returned or raised, the working directory is the one from before   *)
(* the first call.                                                         *)
(***************************************************************************)
C10_Amended == (AllReturned /\ ~crossed) => cwd = cwd0

\* All calls are over, the switches were restored in reverse order, and the
\* call that finished last ran while the other thread's switch was in effect.
C10_Witness ==
    /\ AllReturned
    /\ ~crossed
    /\ RanElsewhere(last)
    /\ cwd = cwd0

====
